---- MODULE Spec2Model ----
(***************************************************************************)
(* Model of src/gpu/locks.rs: the two named file locks (GPULock,           *)
(* PriorityLock), the wait / should_break uses of the priority flag, and   *)
(* the locked_kernel! slot with its retry loop.                            *)
(*                                                                         *)
(* Every process of the host is one sequential flow.  A lock on a file is  *)
(* owned by the File value that took it (each File::create opens the file  *)
(* anew), so the lock tables hold one entry per live File that has a lock. *)
(***************************************************************************)
EXTENDS Naturals, FiniteSets

\* Number of processes on the host.
NumProcs == 2
\* Most GPUTaken results the closures of one with() call return.
MaxTaken == 2

Procs == 1..NumProcs

\* Values a closure can compute, and the GPUError variants it can return.
Values == {"v1", "v2"}
ClosureErrors == {"GPUTaken", "Other", "KernelUninitialized"}
Outcomes == {<<"Ok", v>> : v \in Values} \cup {<<"Err", e>> : e \in ClosureErrors}

NoRet == <<"none", "none">>
Unit == <<"unit", "unit">>
Bool(b) == <<"bool", IF b THEN "true" ELSE "false">>

VARIABLES
    pc,           \* where each process is
    gpuFile,      \* locks held on bellman.gpu.lock: [proc, handle, mode]
    prioFile,     \* locks held on bellman.priority.lock: [proc, handle, mode]
    gpuTok,       \* processes that own a GPULock value
    prioTok,      \* processes that own a PriorityLock value
    priority,     \* the slot's priority field
    kernel,       \* the slot's kernel field: 0 is None, n > 0 is Some(handle n)
    noGpu,        \* whether BELLMAN_NO_GPU is set in the process's environment
    arg,          \* the priority argument of the wait / should_break in progress
    ret,          \* the value the finished operation returned
    seen,         \* state of the priority flag when the operation met it, or
                  \* "fault" when its lock request failed without contention
    pending,      \* the holder whose hold a wait(false) found and that still lasts
    lockOps,      \* lock requests the operation in progress has made
    factoryCalls, \* factory invocations of the with() in progress
    factoryFails, \* factory invocations of it that returned None
    closureCalls, \* closure invocations of it
    taken,        \* closure invocations of it that returned GPUTaken
    cycles,       \* free-then-init cycles of it
    lastClosure,  \* what its latest closure invocation returned
    kernelAtCall  \* the kernel field when it was called

vars == <<pc, gpuFile, prioFile, gpuTok, prioTok, priority, kernel, noGpu, arg,
          ret, seen, pending, lockOps, factoryCalls, factoryFails, closureCalls,
          taken, cycles, lastClosure, kernelAtCall>>

lockVars == <<gpuFile, prioFile, gpuTok, prioTok>>
slotVars == <<priority, kernel, noGpu>>
callVars == <<factoryCalls, factoryFails, closureCalls, taken, cycles,
              lastClosure, kernelAtCall>>

Lock(p, h, m) == [proc |-> p, handle |-> h, mode |-> m]

\* The counts kept of a call's lock requests, factory calls, closure calls
\* and cycles stop at CountCap, which a call whose closure returns GPUTaken
\* at most MaxTaken times never reaches.
CountCap == 2 * MaxTaken + 3
Inc(n) == IF n < CountCap THEN n + 1 ELSE n

\* fs2 lock_exclusive is granted when no other File holds a lock on the file;
\* try_lock_shared when no other File holds an exclusive one.
Contended(file, m) ==
    IF m = "ex" THEN file # {} ELSE \E l \in file : l.mode = "ex"

\* What a caller finds on the priority flag.
FlagState(p) ==
    IF \E l \in prioFile : l.handle = "token" /\ l.proc # p THEN "holder"
    ELSE IF \E l \in prioFile : l.handle = "token" THEN "self"
    ELSE IF \E l \in prioFile : l.mode = "ex" THEN "waiter"
    ELSE IF prioFile # {} THEN "shared"
    ELSE IF \E q \in Procs \ {p} : pc[q] = "prio_drop_ret" THEN "released"
    ELSE "free"

OtherHolder(p) ==
    IF \E q \in prioTok : q # p THEN CHOOSE q \in prioTok : q # p ELSE 0

\* The processes that own a kernel slot in SpecSlot; the others only use the
\* two locks.
SlotProcs == {1}

\* Nothing is locked, no operation is in progress, every slot is as new()
\* leaves it (kernel: None).
InitCommon ==
    /\ pc = [p \in Procs |-> "idle"]
    /\ gpuFile = {}
    /\ prioFile = {}
    /\ gpuTok = {}
    /\ prioTok = {}
    /\ kernel = [p \in Procs |-> 0]
    /\ noGpu = [p \in Procs |-> FALSE]
    /\ arg = [p \in Procs |-> FALSE]
    /\ ret = [p \in Procs |-> NoRet]
    /\ seen = [p \in Procs |-> "none"]
    /\ pending = [p \in Procs |-> 0]
    /\ lockOps = [p \in Procs |-> 0]
    /\ factoryCalls = [p \in Procs |-> 0]
    /\ factoryFails = [p \in Procs |-> 0]
    /\ closureCalls = [p \in Procs |-> 0]
    /\ taken = [p \in Procs |-> 0]
    /\ cycles = [p \in Procs |-> 0]
    /\ lastClosure = [p \in Procs |-> NoRet]
    /\ kernelAtCall = [p \in Procs |-> 0]

\* The processes use the locks only; their slots are never used.
Init ==
    /\ InitCommon
    /\ priority = [p \in Procs |-> FALSE]

\* new(log_d, priority) with either priority in the processes that own a slot.
InitSlot ==
    /\ InitCommon
    /\ priority \in {f \in [Procs -> BOOLEAN] : \A p \in Procs \ SlotProcs : ~f[p]}

----------------------------------------------------------------------------
\* GPULock

\* GPULock::lock() up to the blocking lock_exclusive.
GPULockCall(p) ==
    /\ pc[p] = "idle"
    /\ p \notin gpuTok
    /\ pc' = [pc EXCEPT ![p] = "gpu_lock"]
    /\ lockOps' = [lockOps EXCEPT ![p] = 1]
    /\ UNCHANGED <<lockVars, slotVars, callVars, arg, ret, seen, pending>>

\* GPULockAcquire with a lock request that does not wait for the holder.
GPULockAcquire_NoWait(p) ==
    /\ pc[p] = "gpu_lock"
    /\ gpuFile' = gpuFile \cup {Lock(p, "token", "ex")}
    /\ gpuTok' = gpuTok \cup {p}
    /\ pc' = [pc EXCEPT ![p] = "gpu_lock_ret"]
    /\ UNCHANGED <<prioFile, prioTok, slotVars, callVars, arg, ret, seen,
                   pending, lockOps>>

\* lock_exclusive returns and lock() hands out the token.
GPULockAcquire(p) ==
    /\ pc[p] = "gpu_lock"
    /\ ~Contended(gpuFile, "ex")
    /\ gpuFile' = gpuFile \cup {Lock(p, "token", "ex")}
    /\ gpuTok' = gpuTok \cup {p}
    /\ pc' = [pc EXCEPT ![p] = "gpu_lock_ret"]
    /\ UNCHANGED <<prioFile, prioTok, slotVars, callVars, arg, ret, seen,
                   pending, lockOps>>

\* GPULockDrop that forgets the token without unlocking or closing its File.
GPULockDrop_KeepsLock(p) ==
    /\ pc[p] = "idle"
    /\ p \in gpuTok
    /\ gpuFile' = gpuFile
    /\ gpuTok' = gpuTok \ {p}
    /\ pc' = [pc EXCEPT ![p] = "gpu_drop_ret"]
    /\ UNCHANGED <<prioFile, prioTok, slotVars, callVars, arg, ret, seen,
                   pending, lockOps>>

\* The token is dropped.
GPULockDrop(p) ==
    /\ pc[p] = "idle"
    /\ p \in gpuTok
    /\ gpuFile' = gpuFile \ {Lock(p, "token", "ex")}
    /\ gpuTok' = gpuTok \ {p}
    /\ pc' = [pc EXCEPT ![p] = "gpu_drop_ret"]
    /\ UNCHANGED <<prioFile, prioTok, slotVars, callVars, arg, ret, seen,
                   pending, lockOps>>

----------------------------------------------------------------------------
\* PriorityLock

PriorityLockCall(p) ==
    /\ pc[p] = "idle"
    /\ p \notin prioTok
    /\ pc' = [pc EXCEPT ![p] = "prio_lock"]
    /\ lockOps' = [lockOps EXCEPT ![p] = 1]
    /\ UNCHANGED <<lockVars, slotVars, callVars, arg, ret, seen, pending>>

\* PriorityLockAcquire with a lock request that does not wait for the holder.
PriorityLockAcquire_NoWait(p) ==
    /\ pc[p] = "prio_lock"
    /\ prioFile' = prioFile \cup {Lock(p, "token", "ex")}
    /\ prioTok' = prioTok \cup {p}
    /\ pc' = [pc EXCEPT ![p] = "prio_lock_ret"]
    /\ UNCHANGED <<gpuFile, gpuTok, slotVars, callVars, arg, ret, seen,
                   pending, lockOps>>

\* lock_exclusive returns and lock() hands out the token.
PriorityLockAcquire(p) ==
    /\ pc[p] = "prio_lock"
    /\ ~Contended(prioFile, "ex")
    /\ prioFile' = prioFile \cup {Lock(p, "token", "ex")}
    /\ prioTok' = prioTok \cup {p}
    /\ pc' = [pc EXCEPT ![p] = "prio_lock_ret"]
    /\ UNCHANGED <<gpuFile, gpuTok, slotVars, callVars, arg, ret, seen,
                   pending, lockOps>>

PriorityLockDrop(p) ==
    /\ pc[p] = "idle"
    /\ p \in prioTok
    /\ prioFile' = prioFile \ {Lock(p, "token", "ex")}
    /\ prioTok' = prioTok \ {p}
    /\ pending' = [q \in Procs |-> IF pending[q] = p THEN 0 ELSE pending[q]]
    /\ pc' = [pc EXCEPT ![p] = "prio_drop_ret"]
    /\ UNCHANGED <<gpuFile, gpuTok, slotVars, callVars, arg, ret, seen, lockOps>>

----------------------------------------------------------------------------
\* PriorityLock::wait and PriorityLock::should_break

RetPcs == {"gpu_lock_ret", "gpu_drop_ret", "prio_lock_ret", "prio_drop_ret",
           "wait_ret", "probe_ret", "with_ret"}

\* WaitLocks without the check of the priority argument.
WaitLocks_Always(prio) == TRUE

\* wait(priority) requests the lock only for a non-priority caller.
WaitLocks(prio) == ~prio

\* wait(priority) up to the blocking lock_exclusive, or to its return.
WaitCall(p, prio) ==
    /\ pc[p] = "idle"
    /\ arg' = [arg EXCEPT ![p] = prio]
    /\ seen' = [seen EXCEPT ![p] = FlagState(p)]
    /\ IF WaitLocks(prio)
       THEN /\ pc' = [pc EXCEPT ![p] = "wait_lock"]
            /\ lockOps' = [lockOps EXCEPT ![p] = 1]
            /\ pending' = [pending EXCEPT ![p] = OtherHolder(p)]
            /\ ret' = ret
       ELSE /\ pc' = [pc EXCEPT ![p] = "wait_ret"]
            /\ ret' = [ret EXCEPT ![p] = Unit]
            /\ UNCHANGED <<lockOps, pending>>
    /\ UNCHANGED <<lockVars, slotVars, callVars>>

\* WaitAcquire with a lock request that does not wait for the holder.
WaitAcquire_NoWait(p) ==
    /\ pc[p] \in {"wait_lock", "init_wait"}
    /\ prioFile' = prioFile \cup {Lock(p, "wait", "ex")}
    /\ pc' = [pc EXCEPT ![p] = IF pc[p] = "wait_lock" THEN "wait_held"
                                                       ELSE "init_wait_held"]
    /\ UNCHANGED <<gpuFile, gpuTok, prioTok, slotVars, callVars, arg, ret, seen,
                   pending, lockOps>>

\* The temporary File of wait gets the exclusive lock.
WaitAcquire(p) ==
    /\ pc[p] \in {"wait_lock", "init_wait"}
    /\ ~Contended(prioFile, "ex")
    /\ prioFile' = prioFile \cup {Lock(p, "wait", "ex")}
    /\ pc' = [pc EXCEPT ![p] = IF pc[p] = "wait_lock" THEN "wait_held"
                                                       ELSE "init_wait_held"]
    /\ UNCHANGED <<gpuFile, gpuTok, prioTok, slotVars, callVars, arg, ret, seen,
                   pending, lockOps>>

\* WaitDropped with the temporary File kept alive past the return.
WaitDropped_Leaks(file, p) == file

\* The locks a process's wait leaves on the flag when its temporary File is
\* dropped at the end of the if-let.
WaitDropped(file, p) == file \ {Lock(p, "wait", "ex")}

\* wait returns; inside init the factory is called next.
WaitRelease(p) ==
    /\ pc[p] \in {"wait_held", "init_wait_held"}
    /\ prioFile' = WaitDropped(prioFile, p)
    /\ IF pc[p] = "wait_held"
       THEN /\ pc' = [pc EXCEPT ![p] = "wait_ret"]
            /\ ret' = [ret EXCEPT ![p] = Unit]
            /\ UNCHANGED <<factoryCalls, lockOps>>
       ELSE /\ pc' = [pc EXCEPT ![p] = "factory"]
            /\ factoryCalls' = [factoryCalls EXCEPT ![p] = Inc(@)]
            /\ lockOps' = [lockOps EXCEPT ![p] = Inc(@)]
            /\ ret' = ret
    /\ UNCHANGED <<gpuFile, gpuTok, prioTok, slotVars, arg, seen, pending,
                   factoryFails, closureCalls, taken, cycles, lastClosure,
                   kernelAtCall>>

\* The lock_exclusive of wait fails instead of being granted: the error is
\* logged and wait returns with no lock; inside init the factory is called
\* next.
WaitFault(p) ==
    /\ pc[p] \in {"wait_lock", "init_wait"}
    /\ seen' = [seen EXCEPT ![p] = "fault"]
    /\ IF pc[p] = "wait_lock"
       THEN /\ pc' = [pc EXCEPT ![p] = "wait_ret"]
            /\ ret' = [ret EXCEPT ![p] = Unit]
            /\ UNCHANGED <<factoryCalls, lockOps>>
       ELSE /\ pc' = [pc EXCEPT ![p] = "factory"]
            /\ factoryCalls' = [factoryCalls EXCEPT ![p] = Inc(@)]
            /\ lockOps' = [lockOps EXCEPT ![p] = Inc(@)]
            /\ ret' = ret
    /\ UNCHANGED <<lockVars, slotVars, arg, pending, factoryFails, closureCalls,
                   taken, cycles, lastClosure, kernelAtCall>>

\* ProbeLocks without the early return for a priority caller.
ProbeLocks_Always(prio) == TRUE

\* should_break(priority) tries the lock only for a non-priority caller.
ProbeLocks(prio) == ~prio

\* try_lock_shared on a fresh File.
TryLockShared(file) == IF Contended(file, "sh") THEN "contended" ELSE "ok"

\* ShouldBreakValue with the contention error taken for any other error.
ShouldBreakValue_NeverTrue(prio, attempt) == FALSE

\* ShouldBreakValue that answers true to every failed attempt.
ShouldBreakValue_AnyError(prio, attempt) == ~prio /\ attempt \notin {"ok", "none"}

\* The value of should_break, given how the attempt ended ("none" when no
\* attempt was made, "fault" for an error other than the contention error).
ShouldBreakValue(prio, attempt) ==
    IF prio THEN FALSE
    ELSE IF attempt = "contended" THEN TRUE
    ELSE FALSE

\* ShouldBreakStep with a lock request that waits until it is granted.
ShouldBreakStep_Blocking(p, prio, attempt) ==
    /\ pc[p] = "idle"
    /\ ProbeLocks(prio) => attempt = "ok"
    /\ arg' = [arg EXCEPT ![p] = prio]
    /\ seen' = [seen EXCEPT ![p] = FlagState(p)]
    /\ IF ProbeLocks(prio)
       THEN /\ lockOps' = [lockOps EXCEPT ![p] = 1]
            /\ prioFile' = prioFile \cup {Lock(p, "probe", "sh")}
            /\ pc' = [pc EXCEPT ![p] = "probe_held"]
            /\ ret' = ret
       ELSE /\ pc' = [pc EXCEPT ![p] = "probe_ret"]
            /\ ret' = [ret EXCEPT ![p] = Bool(FALSE)]
            /\ UNCHANGED <<lockOps, prioFile>>
    /\ UNCHANGED <<gpuFile, gpuTok, prioTok, slotVars, callVars, pending>>

\* should_break(priority) with the attempt ending as given.
ShouldBreakStep(p, prio, attempt) ==
    /\ pc[p] = "idle"
    /\ arg' = [arg EXCEPT ![p] = prio]
    /\ seen' = [seen EXCEPT ![p] = IF attempt = "fault" THEN "fault" ELSE FlagState(p)]
    /\ IF ProbeLocks(prio)
       THEN /\ lockOps' = [lockOps EXCEPT ![p] = 1]
            /\ IF attempt = "ok"
               THEN /\ prioFile' = prioFile \cup {Lock(p, "probe", "sh")}
                    /\ pc' = [pc EXCEPT ![p] = "probe_held"]
                    /\ ret' = ret
               ELSE /\ prioFile' = prioFile
                    /\ pc' = [pc EXCEPT ![p] = "probe_ret"]
                    /\ ret' = [ret EXCEPT ![p] = Bool(ShouldBreakValue(prio, attempt))]
       ELSE /\ pc' = [pc EXCEPT ![p] = "probe_ret"]
            /\ ret' = [ret EXCEPT ![p] = Bool(ShouldBreakValue(prio, "none"))]
            /\ UNCHANGED <<lockOps, prioFile>>
    /\ UNCHANGED <<gpuFile, gpuTok, prioTok, slotVars, callVars, pending>>

ShouldBreakCall(p, prio) == ShouldBreakStep(p, prio, TryLockShared(prioFile))

\* should_break(false) whose try_lock_shared fails with an error other than
\* the contention error.
ShouldBreakFault(p) == ShouldBreakStep(p, FALSE, "fault")

\* The temporary File of a successful probe is dropped; should_break returns.
ProbeRelease(p) ==
    /\ pc[p] = "probe_held"
    /\ prioFile' = prioFile \ {Lock(p, "probe", "sh")}
    /\ pc' = [pc EXCEPT ![p] = "probe_ret"]
    /\ ret' = [ret EXCEPT ![p] = Bool(ShouldBreakValue(arg[p], "ok"))]
    /\ UNCHANGED <<gpuFile, gpuTok, prioTok, slotVars, callVars, arg, seen,
                   pending, lockOps>>

\* The caller takes the result and goes on.
Return(p) ==
    /\ pc[p] \in RetPcs
    /\ pc' = [pc EXCEPT ![p] = "idle"]
    /\ arg' = [arg EXCEPT ![p] = FALSE]
    /\ ret' = [ret EXCEPT ![p] = NoRet]
    /\ seen' = [seen EXCEPT ![p] = "none"]
    /\ pending' = [pending EXCEPT ![p] = 0]
    /\ lockOps' = [lockOps EXCEPT ![p] = 0]
    /\ factoryCalls' = [factoryCalls EXCEPT ![p] = 0]
    /\ factoryFails' = [factoryFails EXCEPT ![p] = 0]
    /\ closureCalls' = [closureCalls EXCEPT ![p] = 0]
    /\ taken' = [taken EXCEPT ![p] = 0]
    /\ cycles' = [cycles EXCEPT ![p] = 0]
    /\ lastClosure' = [lastClosure EXCEPT ![p] = NoRet]
    /\ kernelAtCall' = [kernelAtCall EXCEPT ![p] = 0]
    /\ UNCHANGED <<lockVars, slotVars>>

----------------------------------------------------------------------------
\* locked_kernel!: new, init, free, with

\* Disabled without the check of the environment variable.
Disabled_Ignored(env) == FALSE

\* std::env::var("BELLMAN_NO_GPU").is_ok()
Disabled(env) == env

\* NeedsInit without the is_none() check.
NeedsInit_Always(k) == TRUE

\* init() does its work only when self.kernel.is_none().
NeedsInit(k) == k = 0

\* Free that leaves the kernel in the slot.
Free_Keeps(k) == k

\* free(): self.kernel.take() leaves None in the slot.
Free(k) == 0

\* The environment variable is set or removed between calls.
ToggleNoGpu(p) ==
    /\ pc[p] = "idle"
    /\ noGpu' = [noGpu EXCEPT ![p] = ~@]
    /\ UNCHANGED <<pc, lockVars, priority, kernel, callVars, arg, ret, seen,
                   pending, lockOps>>

\* init() on a slot whose kernel field is k, up to the point where it blocks
\* (the lock_exclusive of wait, or the factory) or returns to the loop.
InitFrom(p, k) ==
    IF ~NeedsInit(k)
    THEN /\ pc' = [pc EXCEPT ![p] = "loop"]
         /\ UNCHANGED <<arg, seen, pending, lockOps, factoryCalls>>
    ELSE /\ arg' = [arg EXCEPT ![p] = priority[p]]
         /\ seen' = [seen EXCEPT ![p] = FlagState(p)]
         /\ lockOps' = [lockOps EXCEPT ![p] = Inc(@)]
         /\ IF WaitLocks(priority[p])
            THEN /\ pc' = [pc EXCEPT ![p] = "init_wait"]
                 /\ pending' = [pending EXCEPT ![p] = OtherHolder(p)]
                 /\ factoryCalls' = factoryCalls
            ELSE /\ pc' = [pc EXCEPT ![p] = "factory"]
                 /\ factoryCalls' = [factoryCalls EXCEPT ![p] = Inc(@)]
                 /\ pending' = pending

\* with(f) from its call to the first point where it blocks or returns.
WithCall(p) ==
    /\ pc[p] = "idle"
    /\ kernelAtCall' = [kernelAtCall EXCEPT ![p] = kernel[p]]
    /\ IF Disabled(noGpu[p])
       THEN /\ pc' = [pc EXCEPT ![p] = "with_ret"]
            /\ ret' = [ret EXCEPT ![p] = <<"Err", "GPUDisabled">>]
            /\ UNCHANGED <<arg, seen, pending, lockOps, factoryCalls>>
       ELSE /\ InitFrom(p, kernel[p])
            /\ ret' = ret
    /\ UNCHANGED <<lockVars, slotVars, factoryFails, closureCalls, taken, cycles,
                   lastClosure>>

\* The n-th handle the factory makes in a call that began with handle k0 in
\* the slot: one that differs from the handle the slot had before it.
NewHandle(k0, n) == 1 + ((k0 + n + 1) % 2)

\* The factory ($func, defined outside this file) returns: None, or a kernel
\* that owns the GPULock it took with the blocking GPULock::lock() and keeps
\* it until the kernel is dropped.
Factory(p, ok) ==
    /\ pc[p] = "factory"
    /\ IF ok
       THEN /\ ~Contended(gpuFile, "ex")
            /\ gpuFile' = gpuFile \cup {Lock(p, "kernel", "ex")}
            /\ kernel' = [kernel EXCEPT ![p] = NewHandle(kernelAtCall[p], factoryCalls[p])]
            /\ factoryFails' = factoryFails
       ELSE /\ factoryFails' = [factoryFails EXCEPT ![p] = Inc(@)]
            /\ UNCHANGED <<gpuFile, kernel>>
    /\ pc' = [pc EXCEPT ![p] = "loop"]
    /\ UNCHANGED <<prioFile, gpuTok, prioTok, priority, noGpu, arg, ret, seen,
                   pending, lockOps, factoryCalls, closureCalls, taken, cycles,
                   lastClosure, kernelAtCall>>

\* LoopUninitialized that goes back to init instead of returning.
LoopUninitialized_Retries(p) ==
    /\ pc[p] = "loop"
    /\ kernel[p] = 0
    /\ InitFrom(p, kernel[p])
    /\ UNCHANGED <<lockVars, slotVars, factoryFails, closureCalls, taken, cycles,
                   lastClosure, kernelAtCall, ret>>

\* The loop finds no kernel in the slot.
LoopUninitialized(p) ==
    /\ pc[p] = "loop"
    /\ kernel[p] = 0
    /\ pc' = [pc EXCEPT ![p] = "with_ret"]
    /\ ret' = [ret EXCEPT ![p] = <<"Err", "KernelUninitialized">>]
    /\ UNCHANGED <<lockVars, slotVars, callVars, arg, seen, pending, lockOps>>

\* OnResult that retries after every error.
OnResult_RetryAll(o) == IF o[1] = "Err" THEN "retry" ELSE "return"

\* OnResult without the GPUTaken arm.
OnResult_ReturnAll(o) == "return"

\* What the loop does with the closure's result: "retry" or "return".
OnResult(o) == IF o = <<"Err", "GPUTaken">> THEN "retry" ELSE "return"

\* The closure the loop ran on the kernel returns o.  On GPUTaken free()
\* drops the kernel, and with it the kernel's GPULock, and
\* init() runs again.
ClosureReturns(p, o) ==
    /\ kernel[p] # 0
    /\ closureCalls' = [closureCalls EXCEPT ![p] = Inc(@)]
    /\ lastClosure' = [lastClosure EXCEPT ![p] = o]
    /\ taken' = [taken EXCEPT ![p] = IF o = <<"Err", "GPUTaken">> THEN Inc(@) ELSE @]
    /\ IF OnResult(o) = "retry"
       THEN /\ kernel' = [kernel EXCEPT ![p] = Free(@)]
            /\ gpuFile' = IF Free(kernel[p]) = 0
                          THEN gpuFile \ {Lock(p, "kernel", "ex")}
                          ELSE gpuFile
            /\ cycles' = [cycles EXCEPT ![p] = Inc(@)]
            /\ InitFrom(p, Free(kernel[p]))
            /\ ret' = ret
       ELSE /\ pc' = [pc EXCEPT ![p] = "with_ret"]
            /\ ret' = [ret EXCEPT ![p] = o]
            /\ UNCHANGED <<kernel, gpuFile, cycles, arg, seen, pending, lockOps,
                           factoryCalls>>
    /\ UNCHANGED <<prioFile, gpuTok, prioTok, priority, noGpu, factoryFails,
                   kernelAtCall>>

\* The loop calls a closure that returns o at once; it returns GPUTaken at
\* most MaxTaken times in a call.
Closure(p, o) ==
    /\ pc[p] = "loop"
    /\ o = <<"Err", "GPUTaken">> => taken[p] < MaxTaken
    /\ ClosureReturns(p, o)

\* A closure that calls should_break(priority) of its slot during its work:
\* on true it returns GPUTaken; otherwise the work goes on, for a
\* non-priority slot once the File of the probe is dropped.
ClosureProbe(p) ==
    /\ pc[p] \in {"loop", "closure_work"}
    /\ kernel[p] # 0
    /\ IF ~ProbeLocks(priority[p])
       THEN /\ ~ShouldBreakValue(priority[p], "none")
            /\ pc' = [pc EXCEPT ![p] = "closure_work"]
            /\ UNCHANGED <<lockVars, slotVars, callVars, arg, ret, seen, pending,
                           lockOps>>
       ELSE IF TryLockShared(prioFile) = "ok"
       THEN /\ prioFile' = prioFile \cup {Lock(p, "probe", "sh")}
            /\ pc' = [pc EXCEPT ![p] = "closure_probe"]
            /\ UNCHANGED <<gpuFile, gpuTok, prioTok, slotVars, callVars, arg, ret,
                           seen, pending, lockOps>>
       ELSE /\ ShouldBreakValue(priority[p], TryLockShared(prioFile))
            /\ ClosureReturns(p, <<"Err", "GPUTaken">>)

\* The File of the closure's probe is dropped; should_break has returned
\* false.
ClosureProbeRelease(p) ==
    /\ pc[p] = "closure_probe"
    /\ ~ShouldBreakValue(priority[p], "ok")
    /\ prioFile' = prioFile \ {Lock(p, "probe", "sh")}
    /\ pc' = [pc EXCEPT ![p] = "closure_work"]
    /\ UNCHANGED <<gpuFile, gpuTok, prioTok, slotVars, callVars, arg, ret, seen,
                   pending, lockOps>>

\* The closure, not told to break, finishes its work.
ClosureDone(p) ==
    /\ pc[p] = "closure_work"
    /\ ClosureReturns(p, <<"Ok", "v1">>)

\* The slot goes out of scope and is made anew: its kernel, if any, is
\* dropped and the kernel's GPULock with it.
SlotDrop(p) ==
    /\ pc[p] = "idle"
    /\ kernel[p] # 0
    /\ kernel' = [kernel EXCEPT ![p] = 0]
    /\ gpuFile' = gpuFile \ {Lock(p, "kernel", "ex")}
    /\ UNCHANGED <<pc, prioFile, gpuTok, prioTok, priority, noGpu, callVars, arg,
                   ret, seen, pending, lockOps>>

----------------------------------------------------------------------------

\* The operations on the two locks, by any process.
LockStep(p) ==
    \/ GPULockCall(p)
    \/ GPULockAcquire(p)
    \/ GPULockDrop(p)
    \/ PriorityLockCall(p)
    \/ PriorityLockAcquire(p)
    \/ PriorityLockDrop(p)
    \/ \E prio \in BOOLEAN : WaitCall(p, prio)
    \/ \E prio \in BOOLEAN : ShouldBreakCall(p, prio)
    \/ ProbeRelease(p)

\* The steps of with() on a process's slot.
SlotStep(p) ==
    \/ ToggleNoGpu(p)
    \/ WithCall(p)
    \/ \E ok \in BOOLEAN : Factory(p, ok)
    \/ LoopUninitialized(p)
    \/ \E o \in Outcomes : Closure(p, o)

\* Processes that call the lock operations in any order.
Next ==
    \E p \in Procs :
        \/ LockStep(p)
        \/ WaitAcquire(p)
        \/ WaitRelease(p)
        \/ Return(p)

Spec == Init /\ [][Next]_vars

\* A process that works through its slot, among processes that call the lock
\* operations in any order.
NextSlot ==
    \/ \E p \in SlotProcs : SlotStep(p)
    \/ \E p \in Procs \ SlotProcs : LockStep(p)
    \/ \E p \in Procs : WaitAcquire(p) \/ WaitRelease(p) \/ Return(p)

SpecSlot == InitSlot /\ [][NextSlot]_vars

\* The same processes, with lock requests that may fail for reasons other
\* than contention.
NextFault ==
    \/ NextSlot
    \/ \E p \in Procs \ SlotProcs : ShouldBreakFault(p)
    \/ \E p \in Procs : WaitFault(p)

SpecFault == InitSlot /\ [][NextFault]_vars

\* The scheduling: a process whose next step stays possible takes it.  A
\* blocked lock_exclusive is granted if the lock stays free for it; flock
\* neither queues requests nor hands the lock over, so a request that is
\* possible only now and then has no such guarantee.  When a process calls
\* an operation or drops a token is up to its program.
Progress(p) ==
    /\ WF_vars(GPULockAcquire(p))
    /\ WF_vars(PriorityLockAcquire(p))
    /\ WF_vars(WaitAcquire(p))
    /\ WF_vars(WaitRelease(p))
    /\ WF_vars(ProbeRelease(p))
    /\ WF_vars(Return(p))

FairSpec == Spec /\ \A p \in Procs : Progress(p)

\* The two token operations, by any process.
HolderStep(p) ==
    \/ GPULockCall(p)
    \/ GPULockAcquire(p)
    \/ GPULockDrop(p)
    \/ PriorityLockCall(p)
    \/ PriorityLockAcquire(p)
    \/ PriorityLockDrop(p)


\* In with() the calls to code outside this file return: the factory with a
\* handle or with None, the closure with a result.
SlotProgress(p) ==
    /\ WF_vars(\E ok \in BOOLEAN : Factory(p, ok))
    /\ WF_vars(\E o \in Outcomes : Closure(p, o))
    /\ WF_vars(LoopUninitialized(p))

\* A process that works through its slot, among processes that take and
\* drop the two tokens.
NextLoop ==
    \/ \E p \in SlotProcs : SlotStep(p)
    \/ \E p \in Procs \ SlotProcs : HolderStep(p)
    \/ \E p \in Procs : WaitAcquire(p) \/ WaitRelease(p) \/ Return(p)

FairSlot ==
    /\ InitSlot /\ [][NextLoop]_vars
    /\ \A p \in Procs : Progress(p)
    /\ \A p \in SlotProcs : SlotProgress(p)

\* The one process that works at high priority.
PriorityProcs == {1}

\* Every process owns a slot: priority = true in the priority process.
InitHandoff ==
    /\ InitCommon
    /\ priority = [p \in Procs |-> p \in PriorityProcs]

\* with() of the priority process is called under its PriorityLock token.
HandoffWith(p) ==
    /\ priority[p] => p \in prioTok
    /\ WithCall(p)

\* A priority process that takes the token, works through its slot and
\* drops the token, among non-priority processes that work through theirs;
\* every closure probes should_break, every factory call makes a kernel.
NextHandoff ==
    \E p \in Procs :
        \/ priority[p] /\ PriorityLockCall(p)
        \/ PriorityLockAcquire(p)
        \/ PriorityLockDrop(p)
        \/ HandoffWith(p)
        \/ WaitAcquire(p)
        \/ WaitRelease(p)
        \/ Factory(p, TRUE)
        \/ ClosureProbe(p)
        \/ ClosureProbeRelease(p)
        \/ ClosureDone(p)
        \/ SlotDrop(p)
        \/ Return(p)

\* The closure's code runs on; a factory whose GPULock::lock() can be granted
\* returns the kernel.
HandoffProgress(p) ==
    /\ WF_vars(Factory(p, TRUE))
    /\ WF_vars(ClosureProbe(p) \/ ClosureDone(p))
    /\ WF_vars(ClosureProbeRelease(p))

FairHandoff ==
    /\ InitHandoff /\ [][NextHandoff]_vars
    /\ \A p \in Procs : Progress(p) /\ HandoffProgress(p)

----------------------------------------------------------------------------
\* Properties

True == Bool(TRUE)
False == Bool(FALSE)

\* C1: at every instant at most one process holds a GPULock, and a process
\* blocked inside GPULock::lock() stays blocked in every step that leaves
\* another process's token alive.
C1_GPUMutualExclusion ==
    /\ [](Cardinality(gpuTok) <= 1)
    /\ [][\A p \in Procs :
            (pc[p] = "gpu_lock" /\ (gpuTok \ {p}) # {} /\ (gpuTok' \ {p}) # {})
                => pc'[p] = "gpu_lock"]_vars

\* One process holds the GPULock while another is blocked inside lock().
C1_Witness ==
    \E p, q \in Procs : p # q /\ p \in gpuTok /\ pc[q] = "gpu_lock"

\* C2: at every instant at most one process holds a PriorityLock token, and a
\* process blocked inside PriorityLock::lock() stays blocked in every step
\* that leaves another process's token alive.
C2_PriorityExclusivity ==
    /\ [](Cardinality(prioTok) <= 1)
    /\ [][\A p \in Procs :
            (pc[p] = "prio_lock" /\ (prioTok \ {p}) # {} /\ (prioTok' \ {p}) # {})
                => pc'[p] = "prio_lock"]_vars

\* One process holds the PriorityLock while another is blocked inside lock().
C2_Witness ==
    \E p, q \in Procs : p # q /\ p \in prioTok /\ pc[q] = "prio_lock"

C3_WitnessReleased ==
    \E a, b \in Procs :
        /\ a # b /\ pc[a] = "prio_drop_ret"
        /\ pc[b] = "probe_ret" /\ ~arg[b] /\ seen[b] = "released" /\ ret[b] = False

\* C4: should_break(false) in a process that holds no token returns true
\* exactly when another process held a PriorityLock token at the probe.
C4_ProbeTrueOnlyForHolder ==
    \A p \in Procs :
        (pc[p] = "probe_ret" /\ ~arg[p] /\ p \notin prioTok) =>
            (ret[p] = True <=> seen[p] = "holder")

\* C5: should_break(true) returns false and requests no lock, whatever the
\* state of the flag.
C5_PriorityNeverBreaks ==
    \A p \in Procs :
        (pc[p] = "probe_ret" /\ arg[p]) =>
            /\ ret[p] = False
            /\ lockOps[p] = 0
            /\ \A l \in prioFile : l.proc = p => l.handle = "token"

\* should_break(true) has returned while another process holds a token.
C5_Witness ==
    \E p \in Procs :
        pc[p] = "probe_ret" /\ arg[p] /\ seen[p] = "holder" /\ ret[p] = False

C7_WaitRetainsNothing ==
    /\ \A p \in Procs :
          (pc[p] = "wait_ret" /\ ~arg[p]) => \A l \in prioFile : l.proc # p
    /\ \A l \in prioFile :
          l.handle = "wait" => pc[l.proc] \in {"wait_held", "init_wait_held"}

\* A wait(false) has returned and another process got the PriorityLock since.
C7_Witness ==
    \E p, q \in Procs :
        /\ p # q /\ pc[p] = "wait_ret" /\ ~arg[p] /\ lockOps[p] = 1
        /\ q \in prioTok

\* C8: when with() on a slot that was Uninitialized at the call has returned
\* and the closure's results were N times GPUTaken and then Ok(v), with()
\* returned Ok(v) after N free-then-init cycles, N + 1 closure invocations and
\* N + 1 factory invocations.
C8_RetryConvergence ==
    \A p \in Procs :
        (/\ pc[p] = "with_ret"
         /\ kernelAtCall[p] = 0
         /\ lastClosure[p][1] = "Ok") =>
            /\ ret[p] = lastClosure[p]
            /\ factoryFails[p] = 0
            /\ cycles[p] = taken[p]
            /\ closureCalls[p] = taken[p] + 1
            /\ factoryCalls[p] = taken[p] + 1

\* with() on a fresh slot has returned Ok(v) after MaxTaken preemptions.
C8_Witness ==
    \E p \in Procs :
        /\ pc[p] = "with_ret" /\ kernelAtCall[p] = 0
        /\ lastClosure[p] = <<"Ok", "v2">> /\ ret[p] = <<"Ok", "v2">>
        /\ taken[p] = MaxTaken /\ factoryCalls[p] = MaxTaken + 1

\* C9: a with() called with BELLMAN_NO_GPU set has returned GPUDisabled with
\* no factory invocation, no closure invocation, no lock request and the
\* slot's kernel field as it was at the call.
C9_DisabledOverride ==
    \A p \in Procs :
        (pc[p] = "with_ret" /\ noGpu[p]) =>
            /\ ret[p] = <<"Err", "GPUDisabled">>
            /\ factoryCalls[p] = 0
            /\ closureCalls[p] = 0
            /\ cycles[p] = 0
            /\ lockOps[p] = 0
            /\ kernel[p] = kernelAtCall[p]
            /\ \A l \in prioFile : l.proc # p

\* with() on an Active slot has returned GPUDisabled, the slot still Active.
C9_Witness ==
    \E p \in Procs :
        /\ pc[p] = "with_ret" /\ noGpu[p] /\ ret[p] = <<"Err", "GPUDisabled">>
        /\ kernelAtCall[p] # 0 /\ kernel[p] = kernelAtCall[p]

\* C10: the factory returns None at most once in a with() call, and once it
\* has, the call is at its return with KernelUninitialized: the slot is
\* Uninitialized, no closure was invoked since (every closure invocation of
\* the call returned GPUTaken) and no factory was invoked since (one per
\* cycle, and one more when the slot was Uninitialized at the call).
C10_UninitializedFallback ==
    \A p \in Procs :
        /\ factoryFails[p] <= 1
        /\ factoryFails[p] = 1 =>
            /\ pc[p] \in {"loop", "with_ret"}
            /\ kernel[p] = 0
            /\ closureCalls[p] = taken[p]
            /\ cycles[p] = taken[p]
            /\ factoryCalls[p] = cycles[p] + (IF kernelAtCall[p] = 0 THEN 1 ELSE 0)
            /\ pc[p] = "with_ret" => ret[p] = <<"Err", "KernelUninitialized">>

\* with() has returned KernelUninitialized after a failed re-initialization
\* that followed a preemption.
C10_Witness ==
    \E p \in Procs :
        /\ pc[p] = "with_ret" /\ factoryFails[p] = 1 /\ cycles[p] >= 1
        /\ ret[p] = <<"Err", "KernelUninitialized">>

\* with() on a fresh slot has returned KernelUninitialized after one factory
\* invocation.
C10_WitnessFresh ==
    \E p \in Procs :
        /\ pc[p] = "with_ret" /\ factoryFails[p] = 1 /\ kernelAtCall[p] = 0
        /\ factoryCalls[p] = 1 /\ closureCalls[p] = 0
        /\ ret[p] = <<"Err", "KernelUninitialized">>

\* The pcs of a with() call that has not returned.
InWith == {"init_wait", "init_wait_held", "factory", "loop", "closure_probe",
           "closure_work"}

\* C11: once the closure has returned an error other than GPUTaken, with()
\* is at its return with that error: no closure invocation, no free, no wait
\* and no factory invocation came after it.
C11_OtherFailureTerminal ==
    \A p \in Procs :
        (lastClosure[p][1] = "Err" /\ lastClosure[p][2] # "GPUTaken") =>
            /\ pc[p] = "with_ret"
            /\ ret[p] = lastClosure[p]
            /\ kernel[p] # 0
            /\ closureCalls[p] = taken[p] + 1
            /\ cycles[p] = taken[p]
            /\ factoryCalls[p] = cycles[p] + (IF kernelAtCall[p] = 0 THEN 1 ELSE 0)
            /\ lockOps[p] = factoryCalls[p] * (IF priority[p] THEN 1 ELSE 2)

\* with() on a fresh slot has returned the error of the first closure call.
C11_Witness ==
    \E p \in Procs :
        /\ pc[p] = "with_ret" /\ kernelAtCall[p] = 0
        /\ lastClosure[p] = <<"Err", "Other">> /\ ret[p] = <<"Err", "Other">>
        /\ closureCalls[p] = 1 /\ factoryCalls[p] = 1

\* C12: with() never returns Err(GPUTaken), and every GPUTaken of the closure
\* has been followed by a free-then-init cycle.
C12_GPUTakenNeverSurfaced ==
    \A p \in Procs :
        /\ ret[p] # <<"Err", "GPUTaken">>
        /\ cycles[p] = taken[p]
        /\ lastClosure[p] = <<"Err", "GPUTaken">> =>
              (pc[p] \in InWith \/ ret[p] = <<"Err", "KernelUninitialized">>)

\* with() on an Active slot has returned after the closure reported GPUTaken.
C12_Witness ==
    \E p \in Procs :
        /\ pc[p] = "with_ret" /\ kernelAtCall[p] # 0 /\ taken[p] >= 1
        /\ cycles[p] = taken[p] /\ ret[p][1] = "Ok"

\* C14: should_break can always be called and always be finished, whatever
\* the state of the flag; it returns a boolean after at most one lock request
\* and leaves no lock of its File on the flag.
C14_ShouldBreakNeverBlocks ==
    \A p \in Procs :
        /\ pc[p] = "idle" =>
              (ENABLED ShouldBreakCall(p, FALSE) /\ ENABLED ShouldBreakCall(p, TRUE))
        /\ pc[p] = "probe_held" => ENABLED ProbeRelease(p)
        /\ pc[p] = "probe_ret" =>
              /\ ret[p] \in {True, False}
              /\ lockOps[p] <= 1
              /\ \A l \in prioFile : l.proc = p => l.handle = "token"

\* should_break(false) has returned while a waiter's File holds the flag.
C14_Witness ==
    \E p, q \in Procs :
        /\ pc[p] = "probe_ret" /\ ~arg[p] /\ seen[p] = "waiter" /\ lockOps[p] = 1
        /\ pc[q] = "wait_held"

\* C16: while init() waits on the flag or runs the factory the slot is
\* Uninitialized and owns no GPU lock; the wait is called with the slot's own
\* priority; a non-priority slot has made one lock request in wait per
\* factory invocation, each before it.
C16_PreemptionOrdering ==
    \A p \in Procs :
        /\ pc[p] \in {"init_wait", "init_wait_held", "factory"} =>
              /\ kernel[p] = 0
              /\ \A l \in gpuFile : l.proc = p => l.handle = "token"
              /\ arg[p] = priority[p]
        /\ (pc[p] \in InWith \cup {"with_ret"} /\ ~priority[p]) =>
              lockOps[p] - factoryCalls[p] =
                  factoryCalls[p] + (IF pc[p] \in {"init_wait", "init_wait_held"}
                                     THEN 1 ELSE 0)
        /\ (pc[p] \in InWith \cup {"with_ret"} /\ priority[p]) =>
              lockOps[p] = factoryCalls[p]
        /\ pc[p] \in InWith \cup {"with_ret"} =>
              factoryCalls[p] <= cycles[p] + (IF kernelAtCall[p] = 0 THEN 1 ELSE 0)

\* After a GPUTaken the slot, Uninitialized, is blocked in wait(false) under
\* another process's hold.
C16_Witness ==
    \E p \in Procs :
        /\ pc[p] = "init_wait" /\ cycles[p] >= 1 /\ kernel[p] = 0
        /\ seen[p] = "holder" /\ kernelAtCall[p] # 0

\* The call in progress was not refused by BELLMAN_NO_GPU.
Entered(p) == pc[p] \in InWith \/ (pc[p] = "with_ret" /\ ret[p] # <<"Err", "GPUDisabled">>)

\* What C19 says of a slot whose call began Active or returns a result that
\* keeps the handle, and of a call that began Uninitialized.
C19_Retained(p) ==
    /\ (pc[p] = "with_ret" /\ ret[p] # <<"Err", "KernelUninitialized">>
            /\ ret[p] # <<"Err", "GPUDisabled">>) =>
          /\ kernel[p] # 0
          /\ Lock(p, "kernel", "ex") \in gpuFile
          /\ (kernelAtCall[p] # 0 /\ cycles[p] = 0) => kernel[p] = kernelAtCall[p]
    /\ (Entered(p) /\ kernelAtCall[p] # 0 /\ cycles[p] = 0) =>
          /\ pc[p] \in {"loop", "with_ret"}
          /\ kernel[p] = kernelAtCall[p]
          /\ factoryCalls[p] = 0 /\ lockOps[p] = 0
    /\ (Entered(p) /\ kernelAtCall[p] = 0) =>
          /\ factoryCalls[p] >= (IF pc[p] \in {"init_wait", "init_wait_held"} THEN 0 ELSE 1)
          /\ lockOps[p] >= 1
          /\ (~priority[p] /\ pc[p] \in {"loop", "with_ret"}) => lockOps[p] >= 2

\* The handle of an Active slot is given up only by the GPUTaken arm of the
\* loop, and a handle is put into the slot only by the factory.
C19_OnlyGPUTakenFrees ==
    \A p \in Procs :
        kernel'[p] # kernel[p] =>
            IF kernel[p] # 0
            THEN /\ pc[p] = "loop" /\ kernel'[p] = 0
                 /\ lastClosure'[p] = <<"Err", "GPUTaken">>
            ELSE pc[p] = "factory"

\* C19 as stated: the handle is retained by a call that returns Ok or an
\* error other than GPUTaken/KernelUninitialized/GPUDisabled and a later call
\* on the Active slot goes straight to the closure; after any call that
\* returned KernelUninitialized the slot is Uninitialized, and a call on an
\* Uninitialized slot invokes wait and the factory.
C19_HandleRetainedAsStated ==
    /\ [](\A p \in Procs :
            /\ C19_Retained(p)
            /\ (pc[p] = "with_ret" /\ ret[p] = <<"Err", "KernelUninitialized">>) =>
                  kernel[p] = 0)
    /\ [][C19_OnlyGPUTakenFrees]_vars

\* C19, amended: as stated, except that the slot is Uninitialized after a
\* KernelUninitialized return only when that error comes from the loop
\* finding the slot empty; when the closure itself returned
\* Err(KernelUninitialized) with() passes it on and the slot stays Active
\* with its handle.
C19_HandleRetained ==
    /\ [](\A p \in Procs :
            /\ C19_Retained(p)
            /\ (pc[p] = "with_ret" /\ ret[p] = <<"Err", "KernelUninitialized">>) =>
                  IF lastClosure[p] = <<"Err", "KernelUninitialized">>
                  THEN kernel[p] # 0 /\ Lock(p, "kernel", "ex") \in gpuFile
                  ELSE kernel[p] = 0)
    /\ [][C19_OnlyGPUTakenFrees]_vars

\* A call on an Active slot has returned the closure's Err(KernelUninitialized)
\* without a factory invocation, the handle still in the slot.
C19_Witness ==
    \E p \in Procs :
        /\ pc[p] = "with_ret" /\ ret[p] = <<"Err", "KernelUninitialized">>
        /\ lastClosure[p] = ret[p] /\ kernelAtCall[p] # 0
        /\ kernel[p] = kernelAtCall[p] /\ factoryCalls[p] = 0

\* A call on an Active slot has returned Ok from the first closure call.
C19_WitnessOk ==
    \E p \in Procs :
        /\ pc[p] = "with_ret" /\ ret[p][1] = "Ok" /\ kernelAtCall[p] # 0
        /\ closureCalls[p] = 1 /\ lockOps[p] = 0 /\ kernel[p] = kernelAtCall[p]

\* C18: a should_break(false) whose lock attempt failed for a reason other
\* than contention returns false, a wait(false) whose lock request failed
\* returns normally, both without a lock of their File; inside init the
\* factory is invoked after the failed wait and with() has not returned.
C18_FailOpen ==
    \A p \in Procs :
        seen[p] = "fault" =>
            /\ \A l \in prioFile : l.proc = p => l.handle = "token"
            /\ pc[p] \in {"probe_ret", "wait_ret", "factory", "loop", "with_ret"}
            /\ pc[p] = "probe_ret" => ret[p] = False
            /\ pc[p] = "wait_ret" => ret[p] = Unit
            /\ pc[p] = "factory" => ret[p] = NoRet
            /\ pc[p] \in {"factory", "loop", "with_ret"} =>
                  factoryCalls[p] = cycles[p] + (IF kernelAtCall[p] = 0 THEN 1 ELSE 0)

\* A failed probe has answered false while the File of another process's
\* wait holds the flag.
C18_Witness ==
    \E p, q \in Procs :
        /\ pc[p] = "probe_ret" /\ seen[p] = "fault" /\ ret[p] = False
        /\ q # p /\ pc[q] = "init_wait_held"

\* A failed wait inside init has gone on to the factory while another
\* process holds the token.
C18_WitnessWait ==
    \E p, q \in Procs :
        /\ pc[p] = "factory" /\ seen[p] = "fault" /\ ~priority[p]
        /\ q # p /\ q \in prioTok

\* A token is alive exactly while its File holds the exclusive lock.
TokenHoldsLock ==
    \A p \in Procs :
        /\ p \in gpuTok <=> Lock(p, "token", "ex") \in gpuFile
        /\ p \in prioTok <=> Lock(p, "token", "ex") \in prioFile
        /\ pc[p] \in {"gpu_lock_ret"} => p \in gpuTok
        /\ pc[p] \in {"prio_lock_ret"} => p \in prioTok
        /\ pc[p] = "gpu_drop_ret" => p \notin gpuTok
        /\ pc[p] = "prio_drop_ret" => p \notin prioTok

\* C13 as stated: a token holds its lock from the return of lock() to its
\* drop, and if every holder eventually drops its token, a process blocked
\* in lock() on the same lock eventually acquires it.
C13_ScopedReleaseAsStated ==
    /\ []TokenHoldsLock
    /\ \A p \in Procs :
          (\A q \in Procs : []<>(q \notin gpuTok)) =>
              (pc[p] = "gpu_lock" ~> p \in gpuTok)
    /\ \A p \in Procs :
          (\A q \in Procs : []<>(q \notin prioTok)) =>
              (pc[p] = "prio_lock" ~> p \in prioTok)

\* C13, amended: a token holds its lock from the return of lock() to its
\* drop, and a process blocked in lock() acquires the lock if from some
\* moment on no File of another process holds it; while other processes keep
\* taking the lock the blocked caller may be passed over for ever.
C13_ScopedRelease ==
    /\ []TokenHoldsLock
    /\ \A p \in Procs :
          <>[](\A l \in gpuFile : l.proc = p) =>
              (pc[p] = "gpu_lock" ~> p \in gpuTok)
    /\ \A p \in Procs :
          <>[](\A l \in prioFile : l.proc = p) =>
              (pc[p] = "prio_lock" ~> p \in prioTok)

\* A process is blocked in GPULock::lock() just after the holder dropped its
\* token: the lock is free for it.
C13_Witness ==
    \E p, q \in Procs :
        /\ pc[p] = "gpu_lock" /\ pc[q] = "gpu_drop_ret"
        /\ gpuTok = {} /\ gpuFile = {}

\* The processes other than p use the flag only through wait and
\* should_break.
OthersOnlyWaitAndProbe(p) ==
    \A q \in Procs \ {p} : q \notin prioTok /\ pc[q] # "prio_lock"

\* A should_break(false) called while another process holds the token
\* returns true, without taking a lock.
C15_HolderObserved ==
    \A q \in Procs :
        (pc[q] = "idle" /\ pc'[q] \in {"probe_held", "probe_ret"} /\ ~arg'[q]
            /\ prioTok \ {q} # {}) =>
                (pc'[q] = "probe_ret" /\ ret'[q] = True /\ prioFile' = prioFile)

C17_ExitEvents ==
    \A p \in Procs :
        /\ pc[p] \in InWith =>
              /\ lastClosure[p] \in {NoRet, <<"Err", "GPUTaken">>}
              /\ factoryFails[p] >= 1 => (pc[p] = "loop" /\ kernel[p] = 0)
              /\ ret[p] = NoRet
        /\ (pc[p] = "with_ret" /\ ret[p] # <<"Err", "GPUDisabled">>) =>
              \/ lastClosure[p][1] = "Ok" /\ ret[p] = lastClosure[p]
              \/ /\ lastClosure[p][1] = "Err" /\ lastClosure[p][2] # "GPUTaken"
                 /\ ret[p] = lastClosure[p]
              \/ /\ lastClosure[p] \in {NoRet, <<"Err", "GPUTaken">>}
                 /\ kernel[p] = 0 /\ factoryFails[p] = 1
                 /\ ret[p] = <<"Err", "KernelUninitialized">>
        /\ (pc[p] = "loop" /\ kernel[p] # 0) =>
              /\ ENABLED Closure(p, <<"Ok", "v1">>)
              /\ cycles[p] = taken[p] /\ closureCalls[p] = taken[p]

C20_HandoffSafe ==
    /\ ENABLED NextHandoff
    /\ \A p \in Procs :
          /\ priority[p] =>
                /\ pc[p] \notin {"init_wait", "init_wait_held", "closure_probe"}
                /\ \A l \in prioFile : l.proc = p => l.handle = "token"
          /\ (~priority[p] /\ pc[p] \in {"init_wait", "init_wait_held"}) =>
                /\ kernel[p] = 0
                /\ \A l \in gpuFile : l.proc # p

\* C20 as stated: no deadlock, no acquisition on the flag by a priority
\* slot, no GPU lock held by a non-priority process blocked in wait(false),
\* and the priority process, in with() under its token, eventually has the
\* kernel and its GPU lock.
C20_HandoffAsStated ==
    /\ []C20_HandoffSafe
    /\ \A p \in PriorityProcs : pc[p] \in InWith ~> kernel[p] # 0

\* C20, amended: the priority process eventually has the GPU lock if no
\* non-priority slot stays idle on its kernel for ever: a slot keeps its
\* kernel and the GPU lock between with() calls and gives them up only
\* inside a closure or when dropped.
C20_Handoff ==
    /\ []C20_HandoffSafe
    /\ \A p \in PriorityProcs :
          (\A q \in Procs \ PriorityProcs :
                []<>(kernel[q] = 0 \/ pc[q] # "idle")) =>
              (pc[p] \in InWith ~> kernel[p] # 0)

\* The priority process, under its token, has the kernel while a
\* non-priority process, preempted in its closure, is blocked in wait(false).
C20_Witness ==
    \E p, q \in Procs :
        /\ priority[p] /\ p \in prioTok /\ pc[p] = "closure_work" /\ kernel[p] # 0
        /\ kernelAtCall[p] = 0
        /\ ~priority[q] /\ pc[q] = "init_wait" /\ cycles[q] >= 1
        /\ lastClosure[q] = <<"Err", "GPUTaken">>

====
